---- MODULE Spec2Model ----
(***************************************************************************)
(* Model of scrape.py: the leading-comment directive scanner, the Parser   *)
(* (per-file entry point, declaration walker, signature reconstruction,    *)
(* renderer) and the batch loop of main.                                   *)
(*                                                                         *)
(* Python strings are sequences of one-character strings, so that slicing, *)
(* startswith, replace, split and strip are computed as the code computes  *)
(* them.  Optional values (get_docstring, node.returns) are <<>> for None  *)
(* and <<v>> for a value v.                                                *)
(***************************************************************************)
EXTENDS Integers, Sequences, FiniteSets

VARIABLES
    scanData,    \* the text handed to mod_comment_scanner
    scanResult,  \* its outcome, or NotScanned
    names,       \* Parser.names
    paths,       \* Parser.paths
    ignore,      \* Parser.ignore
    written,     \* documents written so far, in order: <<file, content>>
    status,      \* "running", or the exception that left main
    nparsed,     \* number of Parser.parse calls made
    last         \* what the latest Parser.parse call did

vars == <<scanData, scanResult, names, paths, ignore, written, status, nparsed, last>>

(***************************************************************************)
(* Bounds                                                                  *)
(***************************************************************************)
MaxPieces == 4      \* pieces concatenated into a scanned text
MaxFiles == 3       \* files of one batch run
MaxMembers == 2     \* members of a class in the walked modules

(***************************************************************************)
(* String literals                                                         *)
(***************************************************************************)
NL == "\n"
DocIgnore == <<"#"," ","d","o","c",":"," ","i","g","n","o","r","e">>
DocEndIgnore == <<"#"," ","d","o","c",":"," ","e","n","d"," ","i","g","n","o","r","e">>
DocModuleIgnore == <<"#"," ","d","o","c",":"," ","m","o","d","u","l","e"," ","i","g","n","o","r","e">>
Foo == <<"F","o","o">>
BarBaz == <<"B","a","r",".","b","a","z">>
NoneStr == <<"N","o","n","e">>
SelfStr == <<"s","e","l","f">>
SelfCommaStr == <<"s","e","l","f",","," ">>

(***************************************************************************)
(* Python string primitives                                                *)
(***************************************************************************)
\* data[index], index counted from 0
At(s, i) == s[i + 1]

\* data[index:].startswith(p)
StartsWithAt(s, i, p) ==
    /\ i + Len(p) <= Len(s)
    /\ \A k \in 1..Len(p) : s[i + k] = p[k]

\* s[i:], i counted from 0; the empty string when i >= len(s)
SliceFrom(s, i) == IF i >= Len(s) THEN <<>> ELSE SubSeq(s, i + 1, Len(s))

\* s[i:-1]
SliceMid(s, i) == IF i >= Len(s) - 1 THEN <<>> ELSE SubSeq(s, i + 1, Len(s) - 1)

RECURSIVE ReplaceFrom(_, _, _, _)
ReplaceFrom(s, i, old, new) ==
    IF i >= Len(s) THEN <<>>
    ELSE IF StartsWithAt(s, i, old) THEN new \o ReplaceFrom(s, i + Len(old), old, new)
    ELSE <<At(s, i)>> \o ReplaceFrom(s, i + 1, old, new)

\* s.replace(old, new), old not empty
Replace(s, old, new) == ReplaceFrom(s, 0, old, new)

RECURSIVE SplitFrom(_, _, _, _)
SplitFrom(s, i, sep, cur) ==
    IF i >= Len(s) THEN <<cur>>
    ELSE IF At(s, i) = sep THEN <<cur>> \o SplitFrom(s, i + 1, sep, <<>>)
    ELSE SplitFrom(s, i + 1, sep, Append(cur, At(s, i)))

\* s.split(sep) for a one-character separator
Split(s, sep) == SplitFrom(s, 0, sep, <<>>)

IsSpace(c) == c \in {" ", NL}

RECURSIVE LStrip(_)
LStrip(s) == IF s # <<>> /\ IsSpace(Head(s)) THEN LStrip(Tail(s)) ELSE s

RECURSIVE RStrip(_)
RStrip(s) == IF s # <<>> /\ IsSpace(s[Len(s)]) THEN RStrip(SubSeq(s, 1, Len(s) - 1)) ELSE s

\* s.strip()
Strip(s) == RStrip(LStrip(s))

RECURSIVE Join(_, _)
Join(ss, sep) ==
    IF ss = <<>> THEN <<>>
    ELSE IF Len(ss) = 1 THEN ss[1]
    ELSE ss[1] \o sep \o Join(Tail(ss), sep)

\* x in xs, for a list xs
InList(x, xs) == \E k \in 1..Len(xs) : xs[k] = x

(***************************************************************************)
(* mod_comment_scanner                                                     *)
(***************************************************************************)
ScanList(v) == [kind |-> "list", val |-> v]
ScanNone == [kind |-> "None", val |-> <<>>]
ScanRuntimeError == [kind |-> "RuntimeError", val |-> <<>>]
ScanIndexError == [kind |-> "IndexError", val |-> <<>>]
NotScanned == [kind |-> "not scanned", val |-> <<>>]

\* the return statement of mod_comment_scanner
scanner_return(stuff) ==
    IF stuff # <<>> THEN ScanList(Split(Replace(stuff, <<"#">>, <<>>), ",")) ELSE ScanList(<<>>)

\* a scanner that takes an unmatched "# doc: end ignore" for the end of the block
scanner_end_ignore_Lenient(stuff, opened) == scanner_return(stuff)

\* the branch taken at "# doc: end ignore"
scanner_end_ignore(stuff, opened) ==
    IF ~opened THEN ScanRuntimeError ELSE scanner_return(stuff)

RECURSIVE scanner_loop(_, _, _, _)
scanner_loop(data, index, stuff, opened) ==
    IF index = Len(data) THEN scanner_return(stuff)
    ELSE IF At(data, index) = NL /\ index + 1 >= Len(data) THEN ScanIndexError
    ELSE IF At(data, index) = NL /\ At(data, index + 1) # "#" THEN scanner_return(stuff)
    ELSE IF StartsWithAt(data, index, DocModuleIgnore) THEN ScanNone
    ELSE IF StartsWithAt(data, index, DocIgnore)
         THEN scanner_loop(data, index + Len(DocIgnore), stuff, TRUE)
    ELSE IF StartsWithAt(data, index, DocEndIgnore)
         THEN scanner_end_ignore(stuff, opened)
    ELSE scanner_loop(data, index + 1, Append(stuff, At(data, index)), opened)

mod_comment_scanner(data) == scanner_loop(data, 0, <<>>, FALSE)

(***************************************************************************)
(* Scanned texts: concatenations of at most MaxPieces pieces, and the      *)
(* documented example                                                      *)
(***************************************************************************)
Pieces == {<<"#">>, <<NL>>, <<",">>, <<" ">>, Foo, DocIgnore, DocEndIgnore, DocModuleIgnore}

RECURSIVE TextsOf(_)
TextsOf(n) ==
    IF n = 0 THEN {<<>>}
    ELSE LET shorter == TextsOf(n - 1)
         IN shorter \cup {t \o p : t \in shorter, p \in Pieces}

\* "# doc: ignore\n# Foo,Bar.baz\n"
ExampleBlock == DocIgnore \o <<NL, "#", " ">> \o Foo \o <<",">> \o BarBaz \o <<NL>>
\* the same block followed by a line of code
ExampleBlockThenCode == ExampleBlock \o Foo

\* Parser.parse calls the scanner on texts that start with "#"
ScanTexts == {t \in TextsOf(MaxPieces) : t # <<>> /\ t[1] = "#"}
             \cup {ExampleBlock, ExampleBlockThenCode}

(***************************************************************************)
(* Syntax trees.  A node is a record with the fields of the ast classes    *)
(* the code reads: type (the ast class), name, args (the names in          *)
(* node.args.args), doc (get_docstring), decorator_list, returns, body.    *)
(* A decorator is [type, id, text]: the ast class of the expression, its   *)
(* id when it is a Name, and its unparsed text.                            *)
(***************************************************************************)
Node(type, name, args, doc, decorator_list, returns, body) ==
    [type |-> type, name |-> name, args |-> args, doc |-> doc,
     decorator_list |-> decorator_list, returns |-> returns, body |-> body]

IsFunctionLike(node) == node.type \in {"FunctionDef", "AsyncFunctionDef"}

\* get_docstring(node)
get_docstring(node) == node.doc

\* unparse(node.args) for positional parameters without annotations or defaults
unparse_args(args) == Join(args, <<",", " ">>)

\* unparse(node).splitlines() up to and including the def line; the lines of
\* the body follow it and are never indexed by the code
unparse_lines(node) ==
    [k \in 1..Len(node.decorator_list) |-> <<"@">> \o node.decorator_list[k].text]
    \o << (IF node.type = "AsyncFunctionDef" THEN <<"a","s","y","n","c"," ">> ELSE <<>>)
          \o <<"d","e","f"," ">> \o node.name \o <<"(">> \o unparse_args(node.args) \o <<")">>
          \o (IF node.returns # <<>> THEN <<" ","-",">"," ">> \o node.returns[1] ELSE <<>>)
          \o <<":">> >>

\* Parser.template.format(heading=..., name=..., body=...)
template(heading, name, body) == heading \o <<" ">> \o name \o <<NL, NL>> \o body

\* a privacy test that compares the whole name with "_"
IsPrivate_WholeName(name) == name = <<"_">>

\* str.startswith("_")
IsPrivate(name) == name # <<>> /\ name[1] = "_"

(***************************************************************************)
(* Parser._parse_function                                                  *)
(***************************************************************************)
\* The code also builds "async <signature>" or "<signature>" in a local
\* called name, which the returned text does not use.
_parse_function(self_ignore, node) ==
    LET doc_str == get_docstring(node)
    IN IF doc_str = <<>> \/ doc_str[1] = <<>> THEN <<>>
       ELSE IF InList(node.name, self_ignore) THEN <<>>
       ELSE template(<<"#","#">>, node.name, doc_str[1] \o <<NL, NL, NL>>)

(***************************************************************************)
(* Parser._parse_method                                                    *)
(***************************************************************************)
Ok(text) == [kind |-> "ok", text |-> text]
AttributeError == [kind |-> "AttributeError", text |-> <<>>]

KnownDecorators == {<<"c","l","a","s","s","m","e","t","h","o","d">>,
                    <<"s","t","a","t","i","c","m","e","t","h","o","d">>,
                    <<"p","r","o","p","e","r","t","y">>}
PropertyStr == <<"p","r","o","p","e","r","t","y">>

\* the for loop over filter(...): the id of the last known decorator
RECURSIVE decor_prefix(_, _)
decor_prefix(decorator_list, prefix) ==
    IF decorator_list = <<>> THEN prefix
    ELSE decor_prefix(Tail(decorator_list),
                      IF Head(decorator_list).id \in KnownDecorators
                      THEN Head(decorator_list).id ELSE prefix)

\* node.args.args after the receiver branch
method_args(args) ==
    IF Len(args) = 1 /\ args[1] = SelfStr THEN <<>>
    ELSE IF Len(args) > 1 THEN (IF args[1] = SelfStr THEN Tail(args) ELSE args)
    ELSE args

_parse_method(self_ignore, class_name, node) ==
    LET doc_str == get_docstring(node)
    IN IF doc_str = <<>> \/ doc_str[1] = <<>> THEN Ok(<<>>)
       ELSE IF InList(class_name \o <<".">> \o node.name, self_ignore) THEN Ok(<<>>)
       ELSE IF \E k \in 1..Len(node.decorator_list) : node.decorator_list[k].type # "Name"
            THEN AttributeError
       ELSE
         LET prefix == decor_prefix(node.decorator_list, <<>>)
             pre == IF prefix # <<>> THEN prefix \o <<" ">> ELSE <<>>
             shown == [node EXCEPT !.args = method_args(node.args)]
             lines == unparse_lines(shown)
             line == IF prefix # <<>> THEN lines[Len(node.decorator_list) + 1] ELSE lines[1]
             cut == IF node.type = "AsyncFunctionDef" THEN SliceMid(line, 10) ELSE SliceMid(line, 4)
             signature == Replace(Replace(cut, SelfCommaStr, <<>>), SelfStr, <<>>)
             name == IF prefix # PropertyStr
                     THEN (IF node.type = "AsyncFunctionDef" THEN <<"a","s","y","n","c"," ">> ELSE <<>>)
                          \o pre \o class_name \o <<".">> \o signature
                     ELSE PropertyStr \o <<" ">> \o class_name \o <<".">> \o node.name \o <<":"," ">>
                          \o (IF node.returns # <<>> THEN node.returns[1] ELSE NoneStr)
         IN Ok(template(<<"#","#","#">>, name, doc_str[1] \o <<NL, NL, NL>>))

(***************************************************************************)
(* Parser._parse_class                                                     *)
(***************************************************************************)
InitStr == <<"_","_","i","n","i","t","_","_">>

\* the loop over node.body: st is [kind, signature, body]
RECURSIVE class_loop(_, _, _, _)
class_loop(self_ignore, class_name, members, st) ==
    IF members = <<>> \/ st.kind # "ok" THEN st
    ELSE LET subnode == Head(members)
             rest == Tail(members)
         IN IF ~IsFunctionLike(subnode) THEN class_loop(self_ignore, class_name, rest, st)
            ELSE IF subnode.name = InitStr
                 THEN class_loop(self_ignore, class_name, rest,
                                 [st EXCEPT !.signature = unparse_args(SliceFrom(subnode.args, 1))])
            ELSE IF ~IsPrivate(subnode.name)
                 THEN LET m == _parse_method(self_ignore, class_name, subnode)
                      IN IF m.kind # "ok" THEN [st EXCEPT !.kind = m.kind]
                         ELSE class_loop(self_ignore, class_name, rest,
                                         [st EXCEPT !.body = st.body \o m.text])
            ELSE class_loop(self_ignore, class_name, rest, st)

_parse_class(self_ignore, node) ==
    IF InList(node.name, self_ignore) THEN Ok(<<>>)
    ELSE LET doc_string == get_docstring(node)
             body0 == (IF doc_string = <<>> THEN NoneStr ELSE doc_string[1]) \o <<NL, NL>>
             st == class_loop(self_ignore, node.name, node.body,
                              [kind |-> "ok", signature |-> <<>>, body |-> body0])
             name == <<"c","l","a","s","s"," ">> \o node.name \o <<"(">> \o st.signature \o <<")">>
         IN IF st.kind # "ok" THEN [kind |-> st.kind, text |-> <<>>]
            ELSE Ok(template(<<"#","#">>, name, st.body))

(***************************************************************************)
(* Parser._parse_module                                                    *)
(***************************************************************************)
RECURSIVE _parse_module(_, _, _)
_parse_module(self_ignore, nodes, buffer) ==
    IF nodes = <<>> THEN Ok(buffer)
    ELSE LET node == Head(nodes)
         IN IF node.type = "ClassDef" /\ ~IsPrivate(node.name)
            THEN LET c == _parse_class(self_ignore, node)
                 IN IF c.kind # "ok" THEN c
                    ELSE _parse_module(self_ignore, Tail(nodes), buffer \o c.text)
            ELSE IF IsFunctionLike(node) /\ ~IsPrivate(node.name)
            THEN _parse_module(self_ignore, Tail(nodes), buffer \o _parse_function(self_ignore, node))
            ELSE _parse_module(self_ignore, Tail(nodes), buffer)

(***************************************************************************)
(* Parser.__init__ and Parser.parse                                        *)
(***************************************************************************)
\* target_dir.joinpath(path).joinpath(name + ".md")
OutFile(path, name) == <<path, name \o <<".","m","d">>>>

\* a lookup that keeps the last position holding x
list_index_Last(xs, x, k) ==
    CHOOSE i \in k..Len(xs) : xs[i] = x /\ \A j \in (i + 1)..Len(xs) : xs[j] # x

\* self.paths.index(file): the first position holding file
RECURSIVE list_index(_, _, _)
list_index(xs, x, k) == IF xs[k] = x THEN k ELSE list_index(xs, x, k + 1)

NoParse == [file |-> <<>>, input |-> <<>>, outcome |-> "none", walked |-> FALSE,
            ignore |-> <<>>, chap_name |-> <<>>]

\* A source file f is [path, stem, data, tree]; tree is ast.parse(data).body.
\* One call parser.parse(f.path, f.stem, f.data), as main and recurse_dir make it;
\* an exception leaves the loop of main.
parse(f) ==
    LET file == OutFile(f.path, f.stem)
        chap_name == names[list_index(paths, file, 1)]
        scanned == IF f.data # <<>> /\ f.data[1] = "#" THEN mod_comment_scanner(f.data)
                   ELSE NotScanned
        new_ignore == IF scanned.kind = "list" THEN scanned.val ELSE ignore
        module == _parse_module(new_ignore, f.tree, <<>>)
        rec == [NoParse EXCEPT !.file = file, !.input = f]
    IN /\ nparsed' = nparsed + 1
       /\ UNCHANGED <<scanData, scanResult, names, paths>>
       /\ IF ~InList(file, paths)
          THEN /\ last' = [rec EXCEPT !.outcome = "not indexed"]
               /\ UNCHANGED <<ignore, written, status>>
          ELSE IF scanned.kind = "None"
          THEN /\ last' = [rec EXCEPT !.outcome = "module ignored", !.chap_name = chap_name]
               /\ UNCHANGED <<ignore, written, status>>
          ELSE IF scanned.kind \in {"RuntimeError", "IndexError"}
          THEN /\ last' = [rec EXCEPT !.outcome = scanned.kind, !.chap_name = chap_name]
               /\ status' = scanned.kind
               /\ UNCHANGED <<ignore, written>>
          ELSE /\ ignore' = new_ignore
               /\ IF module.kind # "ok"
                  THEN /\ last' = [rec EXCEPT !.outcome = module.kind, !.walked = TRUE,
                                              !.ignore = new_ignore, !.chap_name = chap_name]
                       /\ status' = module.kind
                       /\ UNCHANGED written
                  ELSE /\ last' = [rec EXCEPT !.outcome = "written", !.walked = TRUE,
                                              !.ignore = new_ignore, !.chap_name = chap_name]
                       /\ written' = Append(written,
                                            <<file, template(<<"#">>, chap_name, Strip(module.text))>>)
                       /\ UNCHANGED status

(***************************************************************************)
(* Inputs                                                                  *)
(***************************************************************************)
TitleA == <<"A">>
TitleB == <<"B">>
StemA == <<"a">>
StemB == <<"b">>
StemZ == <<"z">>
FileA == OutFile("pkg", StemA)
FileB == OutFile("pkg", StemB)

\* parse_summary results: one entry, two entries with the same path, two paths
Summaries == {<< <<TitleA, FileA>> >>,
              << <<TitleA, FileA>>, <<TitleB, FileA>> >>,
              << <<TitleB, FileB>>, <<TitleA, FileA>> >>}

Some(v) == <<v>>
DocD == Some(<<"d">>)
NameF == <<"f">>
NameM == <<"m">>
NameP == <<"_","p">>
ArgX == <<"x">>
ArgCls == <<"c","l","s">>
IntStr == <<"i","n","t">>

NameDecorator(id) == [type |-> "Name", id |-> id, text |-> id]
ClassmethodDec == NameDecorator(<<"c","l","a","s","s","m","e","t","h","o","d">>)
StaticmethodDec == NameDecorator(<<"s","t","a","t","i","c","m","e","t","h","o","d">>)
PropertyDec == NameDecorator(PropertyStr)
OtherDec == NameDecorator(<<"w">>)
\* @abc.abstractmethod, shortened: an ast.Attribute, which has no id
AttributeDec == [type |-> "Attribute", id |-> <<>>, text |-> <<"a",".","b">>]

FuncTypes == {"FunctionDef", "AsyncFunctionDef"}

\* top-level functions
Functions ==
    {Node(t, n, a, d, <<>>, <<>>, <<>>) :
        t \in FuncTypes, n \in {NameF, NameP}, a \in {<<>>, <<ArgX>>}, d \in {<<>>, DocD}}

\* members of a class
PlainMethods ==
    {Node(t, NameM, a, DocD, <<>>, <<>>, <<>>) :
        t \in FuncTypes, a \in {<<>>, <<SelfStr>>, <<SelfStr, ArgX>>, <<ArgCls, ArgX>>}}
SkippedMethods ==
    {Node("FunctionDef", NameM, <<SelfStr>>, <<>>, <<>>, <<>>, <<>>),
     Node("FunctionDef", NameP, <<SelfStr, ArgX>>, DocD, <<>>, <<>>, <<>>),
     Node("AsyncFunctionDef", NameP, <<SelfStr>>, DocD, <<ClassmethodDec>>, <<>>, <<>>)}
DecoratedMethods ==
    {Node("FunctionDef", NameM, <<ArgCls, ArgX>>, DocD, ds, <<>>, <<>>) :
        ds \in {<<ClassmethodDec>>, <<StaticmethodDec>>, <<OtherDec>>, <<AttributeDec>>,
                <<OtherDec, ClassmethodDec>>}}
    \cup {Node("FunctionDef", NameM, <<SelfStr>>, DocD, <<PropertyDec>>, r, <<>>) :
            r \in {<<>>, Some(IntStr)}}
Constructors ==
    {Node("FunctionDef", InitStr, a, <<>>, <<>>, <<>>, <<>>) :
        a \in {<<SelfStr>>, <<SelfStr, ArgX>>}}
Members == PlainMethods \cup SkippedMethods \cup DecoratedMethods \cup Constructors

RECURSIVE SeqsUpTo(_, _)
SeqsUpTo(S, n) ==
    IF n = 0 THEN {<<>>}
    ELSE LET shorter == SeqsUpTo(S, n - 1)
         IN shorter \cup {Append(q, x) : q \in shorter, x \in S}

Classes ==
    {Node("ClassDef", Foo, <<>>, d, <<>>, <<>>, b) :
        d \in {<<>>, DocD}, b \in SeqsUpTo(Members, MaxMembers)}
    \cup {Node("ClassDef", NameP, <<>>, DocD, <<>>, <<>>, b) : b \in SeqsUpTo(PlainMethods, 1)}

\* a top-level statement that is neither a class nor a function
AssignNode == Node("Assign", <<>>, <<>>, <<>>, <<>>, <<>>, <<>>)

\* The text of a file is given through the first characters of its first line
\* of code, which is as far as mod_comment_scanner can read.
CodeOnlyText == Foo
IgnoreFooText == DocIgnore \o Foo \o <<NL>> \o Foo
IgnoreMembersText == DocIgnore \o Foo \o <<".">> \o NameM \o <<",">> \o NameF \o <<NL>> \o Foo
CommentText == <<"#", " ">> \o Foo \o <<NL>> \o Foo
EndOnlyText == DocEndIgnore \o <<NL>> \o Foo
IgnoreEndText == DocIgnore \o Foo \o <<NL>> \o DocEndIgnore \o <<NL>> \o Foo
ModuleIgnoreText == DocModuleIgnore \o <<NL>> \o Foo
ModuleThenEndText == DocModuleIgnore \o <<NL>> \o DocEndIgnore \o <<NL>> \o Foo
\* a file that is one comment line
CommentOnlyText == <<"#", NL>>

SourceFile(path, stem, data, tree) == [path |-> path, stem |-> stem, data |-> data, tree |-> tree]

FooClass == Node("ClassDef", Foo, <<>>, DocD, <<>>, <<>>,
                 <<Node("FunctionDef", NameM, <<SelfStr, ArgX>>, DocD, <<>>, <<>>, <<>>)>>)
FFunction == Node("FunctionDef", NameF, <<ArgX>>, DocD, <<>>, <<>>, <<>>)

\* files of a batch run
BatchFiles ==
    {SourceFile("pkg", stem, data, tree) :
        stem \in {StemA, StemZ},
        data \in {CodeOnlyText, IgnoreFooText, CommentText, EndOnlyText, IgnoreEndText,
                  ModuleIgnoreText, ModuleThenEndText},
        tree \in {<<FooClass>>, <<FFunction>>}}
    \cup {SourceFile("pkg", stem, CommentOnlyText, <<>>) : stem \in {StemA, StemZ}}

\* files whose declarations are walked
WalkTrees ==
    {<<c>> : c \in Classes}
    \cup {<<g>> : g \in Functions}
    \cup {<<g, h>> : g \in Functions, h \in Functions}
    \cup {<<AssignNode, FooClass>>}
WalkFiles ==
    {SourceFile("pkg", StemA, data, tree) :
        data \in {CodeOnlyText, IgnoreFooText, IgnoreMembersText}, tree \in WalkTrees}

(***************************************************************************)
(* Specifications                                                          *)
(***************************************************************************)
\* Parser(book, parse_summary(...)): names, paths = zip(*summary); ignore = []
ParserInit(summary) ==
    /\ names = [k \in 1..Len(summary) |-> summary[k][1]]
    /\ paths = [k \in 1..Len(summary) |-> summary[k][2]]
    /\ ignore = <<>>
    /\ written = <<>>
    /\ status = "running"
    /\ nparsed = 0
    /\ last = NoParse

\* the batch run of main over a source tree
Init ==
    /\ scanData = <<>>
    /\ scanResult = NotScanned
    /\ \E summary \in Summaries : ParserInit(summary)

\* one iteration of the loops of main and recurse_dir
ParseNext ==
    /\ status = "running"
    /\ nparsed < MaxFiles
    /\ \E f \in BatchFiles : parse(f)

\* main returns 0 when the source tree is exhausted
MainReturn ==
    /\ status = "running"
    /\ status' = "returned"
    /\ UNCHANGED <<scanData, scanResult, names, paths, ignore, written, nparsed, last>>

Next == ParseNext \/ MainReturn

Spec == Init /\ [][Next]_vars

\* one file with any of the declaration shapes
InitWalk ==
    /\ scanData = <<>>
    /\ scanResult = NotScanned
    /\ ParserInit(<< <<TitleA, FileA>> >>)

ParseWalk ==
    /\ status = "running"
    /\ nparsed = 0
    /\ \E f \in WalkFiles : parse(f)

NextWalk == ParseWalk

SpecWalk == InitWalk /\ [][NextWalk]_vars

\* mod_comment_scanner applied to one text
InitScan ==
    /\ scanData \in ScanTexts
    /\ scanResult = NotScanned
    /\ ParserInit(<< <<TitleA, FileA>> >>)

Scan ==
    /\ scanResult = NotScanned
    /\ scanResult' = mod_comment_scanner(scanData)
    /\ UNCHANGED <<scanData, names, paths, ignore, written, status, nparsed, last>>

NextScan == Scan

SpecScan == InitScan /\ [][NextScan]_vars

(***************************************************************************)
(* Vocabulary of the properties                                            *)
(***************************************************************************)
\* sub occurs in s
Contains(s, sub) == \E i \in 0..Len(s) : StartsWithAt(s, i, sub)

Chars(s) == {s[k] : k \in 1..Len(s)}

\* The leading comment block of a text: empty unless the text starts with "#",
\* else the text up to the first line break that no "#" follows.
BlockEnds(data) ==
    {i \in 0..(Len(data) - 1) :
        At(data, i) = NL /\ (i + 1 < Len(data) => At(data, i + 1) # "#")}
BlockLen(data) ==
    IF data = <<>> \/ data[1] # "#" THEN 0
    ELSE IF BlockEnds(data) = {} THEN Len(data)
    ELSE (CHOOSE i \in BlockEnds(data) : \A j \in BlockEnds(data) : i <= j) + 1
LeadingBlock(data) == SubSeq(data, 1, BlockLen(data))

\* positions in the leading block where a directive starts
DirectiveAt(data, directive) ==
    {i \in 0..Len(LeadingBlock(data)) : StartsWithAt(LeadingBlock(data), i, directive)}

\* "# doc: end ignore" occurs in the leading block with no "# doc: ignore" before it
UnmatchedEnd(data) ==
    \E i \in DirectiveAt(data, DocEndIgnore) : \A j \in DirectiveAt(data, DocIgnore) : j > i

\* ... and no "# doc: module ignore" before it either
UnmatchedEndFirst(data) ==
    \E i \in DirectiveAt(data, DocEndIgnore) :
        \A j \in DirectiveAt(data, DocIgnore) \cup DirectiveAt(data, DocModuleIgnore) : j > i

\* the Directive Result of a text as an exclusion list; empty without a leading block
OwnExclusions(data) ==
    IF data # <<>> /\ data[1] = "#" THEN mod_comment_scanner(data).val ELSE <<>>

Parsed == last.outcome # "none"
Indexed(file) == \E k \in 1..Len(paths) : paths[k] = file
Raised == status \in {"RuntimeError", "IndexError", "AttributeError"}
LastDoc == written[Len(written)][2]

(***************************************************************************)
(* C1  While a file is walked, the exclusion set in effect is the          *)
(* Directive Result of that file's own text, the empty set when the file   *)
(* has no leading comment block.                                           *)
(***************************************************************************)
C1_OwnExclusionSet == last.walked => last.ignore = OwnExclusions(last.input.data)

(***************************************************************************)
(* C2  A file whose leading comment block has "# doc: end ignore" with no  *)
(* "# doc: ignore" before it makes processing raise the open-scope error.  *)
(***************************************************************************)
C2_UnmatchedEndRaises ==
    (Parsed /\ UnmatchedEnd(last.input.data)) => status = "RuntimeError"

(***************************************************************************)
(* C2, amended  When the file's output path is in the Chapter Index and    *)
(* neither "# doc: ignore" nor "# doc: module ignore" precedes the         *)
(* "# doc: end ignore" in its leading comment block, processing the file   *)
(* raises the open-scope error and writes nothing, and once that error is  *)
(* raised no further file is processed and no document is written.         *)
(***************************************************************************)
C2_IndexedUnmatchedEndAborts ==
    [][ /\ (nparsed' = nparsed + 1 /\ Indexed(last'.file) /\ UnmatchedEndFirst(last'.input.data))
           => (status' = "RuntimeError" /\ written' = written)
        /\ status = "RuntimeError" => (written' = written /\ nparsed' = nparsed)
      ]_vars

C2_Witness ==
    /\ status = "RuntimeError"
    /\ Indexed(last.file)
    /\ UnmatchedEndFirst(last.input.data)
    /\ nparsed = 2
    /\ Len(written) = 1

(***************************************************************************)
(* C3  The scanner never reads at a position at or past the end of the     *)
(* text: whatever the text, it returns a Directive Result or raises the    *)
(* open-scope error.                                                       *)
(***************************************************************************)
C3_NoReadPastEnd == scanResult.kind # "IndexError"

(***************************************************************************)
(* C4  Every token of a scanned exclusion set is trimmed of surrounding    *)
(* whitespace and comment markers, and "# doc: ignore\n# Foo,Bar.baz\n"    *)
(* yields exactly {"Foo", "Bar.baz"}.                                      *)
(***************************************************************************)
IsTrimmed(tok) ==
    tok # <<>> => (tok[1] \notin {" ", NL, "#"} /\ tok[Len(tok)] \notin {" ", NL, "#"})

C4_TrimmedTokens ==
    scanResult # NotScanned =>
        /\ scanResult.kind = "list" => \A k \in 1..Len(scanResult.val) : IsTrimmed(scanResult.val[k])
        /\ scanData = ExampleBlock =>
              (scanResult.kind = "list" /\ {scanResult.val[k] : k \in 1..Len(scanResult.val)} = {Foo, BarBaz})

(***************************************************************************)
(* C5  Nothing named with a leading underscore is rendered: the document   *)
(* written for a module is the one written for the module without its      *)
(* underscore-named classes, functions and members other than __init__,    *)
(* and when the public names, parameters and doc texts hold no underscore  *)
(* the document holds none, so __init__ gets no section either.            *)
(***************************************************************************)
Underscored(node) == node.name # <<>> /\ Head(node.name) = "_"

RECURSIVE WithoutUnderscored(_, _)
WithoutUnderscored(nodes, keepInit) ==
    IF nodes = <<>> THEN <<>>
    ELSE LET n == Head(nodes)
             rest == WithoutUnderscored(Tail(nodes), keepInit)
         IN IF Underscored(n) /\ ~(keepInit /\ n.name = InitStr) THEN rest
            ELSE <<[n EXCEPT !.body = WithoutUnderscored(n.body, TRUE)]>> \o rest

C5_UnderscoredNeverRendered ==
    last.outcome = "written" =>
        /\ "_" \notin Chars(LastDoc)
        /\ LET public == _parse_module(last.ignore, WithoutUnderscored(last.input.tree, FALSE), <<>>)
           IN LastDoc = template(<<"#">>, last.chap_name, Strip(public.text))

C5_Witness ==
    /\ last.outcome = "written"
    /\ Len(last.input.tree) = 1
    /\ last.input.tree[1].type = "ClassDef"
    /\ ~Underscored(last.input.tree[1])
    /\ \E k \in 1..Len(last.input.tree[1].body) :
          /\ last.input.tree[1].body[k].name = NameP
          /\ last.input.tree[1].body[k].doc # <<>>
    /\ \E k \in 1..Len(last.input.tree[1].body) :
          /\ last.input.tree[1].body[k].name = InitStr
          /\ last.input.tree[1].body[k].args = <<SelfStr, ArgX>>
    /\ Contains(LastDoc, <<"c","l","a","s","s"," ">> \o Foo \o <<"(","x",")">>)

(***************************************************************************)
(* C6  Processing a file whose output path is no Chapter Index entry       *)
(* writes nothing and raises nothing; a written document carries the title *)
(* of the first entry, in manifest order, with the file's output path.     *)
(***************************************************************************)
FirstTitle(file) ==
    names[CHOOSE k \in 1..Len(paths) : paths[k] = file /\ \A j \in 1..(k - 1) : paths[j] # file]

C6_UnindexedWritesNothing ==
    [][ nparsed' = nparsed + 1 =>
          /\ ~Indexed(last'.file) =>
                (written' = written /\ status' = "running" /\ ignore' = ignore)
          /\ written' # written =>
                /\ Len(written') = Len(written) + 1
                /\ written'[Len(written')][1] = last'.file
                /\ StartsWithAt(written'[Len(written')][2], 0,
                                <<"#", " ">> \o FirstTitle(last'.file) \o <<NL, NL>>)
      ]_vars

C6_Witness ==
    /\ nparsed = 2
    /\ ~Indexed(last.file)
    /\ UnmatchedEnd(last.input.data)
    /\ status = "running"
    /\ Len(paths) = 2 /\ paths[1] = paths[2] /\ names[1] # names[2]
    /\ Len(written) = 1
    /\ StartsWithAt(written[1][2], 0, <<"#", " ">> \o names[1] \o <<NL, NL>>)

(***************************************************************************)
(* C7  Processing a syntactically valid file completes normally or raises  *)
(* the unmatched "end ignore" error, and nothing else.                     *)
(***************************************************************************)
C7_OnlyOpenScopeError == Raised => status = "RuntimeError"

(***************************************************************************)
(* C8  The section of a documented method that is not a property shows the *)
(* method without its first positional parameter and with the remaining    *)
(* parameters unchanged and in order.                                      *)
(***************************************************************************)
IsDecorated(node, id) ==
    \E k \in 1..Len(node.decorator_list) : node.decorator_list[k].id = id

ElidedSignature(class_name, node) ==
    class_name \o <<".">> \o node.name \o <<"(">> \o unparse_args(SliceFrom(node.args, 1))
    \o <<")", NL>>

C8_FirstParameterElided ==
    (/\ last.outcome = "written"
     /\ Len(last.input.tree) = 1
     /\ last.input.tree[1].type = "ClassDef"
     /\ ~Underscored(last.input.tree[1])
     /\ last.ignore = <<>>)
    => \A k \in 1..Len(last.input.tree[1].body) :
          LET m == last.input.tree[1].body[k]
          IN (/\ IsFunctionLike(m) /\ ~Underscored(m)
              /\ m.doc # <<>>
              /\ ~IsDecorated(m, PropertyStr))
             => Contains(LastDoc, ElidedSignature(last.input.tree[1].name, m))

(***************************************************************************)
(* C9  A documented, public, not excluded top-level function is rendered,  *)
(* and an async function does not render to the same section as a function *)
(* that differs from it only in not being async.                           *)
(***************************************************************************)
C9_AsyncDistinguished ==
    (/\ last.outcome = "written"
     /\ Len(last.input.tree) = 2
     /\ \A k \in 1..2 :
          /\ IsFunctionLike(last.input.tree[k])
          /\ ~Underscored(last.input.tree[k])
          /\ last.input.tree[k].doc # <<>>
          /\ ~InList(last.input.tree[k].name, last.ignore)
     /\ last.input.tree[1].type # last.input.tree[2].type
     /\ last.input.tree[1] = [last.input.tree[2] EXCEPT !.type = last.input.tree[1].type])
    => /\ Contains(LastDoc, <<"#", "#", " ">> \o last.input.tree[1].name)
       /\ _parse_function(last.ignore, last.input.tree[1])
            # _parse_function(last.ignore, last.input.tree[2])

(***************************************************************************)
(* C10  The exclusion set comes only from the comment text after an        *)
(* "ignore" directive: it is empty when the leading comment block has no   *)
(* such directive, and otherwise it is what the scan yields from the first *)
(* such directive on.                                                      *)
(***************************************************************************)
C10_OnlyAfterIgnore ==
    scanResult.kind = "list" =>
        IF DirectiveAt(scanData, DocIgnore) = {} THEN scanResult.val = <<>>
        ELSE LET first == CHOOSE i \in DirectiveAt(scanData, DocIgnore) :
                              \A j \in DirectiveAt(scanData, DocIgnore) : i <= j
             IN scanResult.val = scanner_loop(scanData, first, <<>>, FALSE).val

====
